---- MODULE Spec2Model ----
(***************************************************************************)
(* Model of flambe's Experiment.run (src/flambe/experiment/experiment.py): *)
(* the submission loop that turns a pipeline into remote stages, threads   *)
(* object ids between them and joins on all of them, together with the     *)
(* remote workers that execute the submitted stages; and of Script.run     *)
(* (src/flambe/learn/script.py), which executes a script under its own     *)
(* sys.argv and counts its steps.                                          *)
(***************************************************************************)
EXTENDS Integers, Sequences, FiniteSets, TLC

VARIABLES
    pipeline,        \* self.pipeline: [order |-> stage names in dict order, refs |-> links <<stage, referenced name>>]
    cpus_arg,        \* the cpus_per_trial argument given to __init__
    gpus_arg,        \* the gpus_per_trial argument given to __init__
    cpus_per_trial,  \* self.cpus_per_trial
    gpus_per_trial,  \* self.gpus_per_trial
    pc,              \* position of run: "start", "loop", "join", "returned", "raised"
    i,               \* index of the next item of pipeline.arguments.items()
    error,           \* the exception run ended with, "none" otherwise
    cause,           \* object id whose failure the join re-raised, None otherwise
    stage_to_id,     \* run's local dict: stage name -> object id
    actors,          \* remote stages created so far, indexed by the object id of their run()
    status,          \* object id -> "pending", "running", "done", "failed"
    resolved,        \* object id -> number of times the object got its value
    ray_initialized, \* ray.is_initialized()
    ray_inits,       \* number of calls of ray.init made by run
    runs,            \* number of calls of run made in this process
    script,          \* the Script object: [args, kwargs, max_steps, step (its _step)]
    sys_argv,        \* sys.argv
    sys_save,        \* Script.run's local copy of sys.argv
    script_pc,       \* position of Script.run: "idle", "exec", "raised"
    calls,           \* number of calls of Script.run
    returns,         \* the values the completed calls of Script.run returned
    argv_before      \* sys.argv as it was when Script.run was last called

rayVars == <<ray_initialized, ray_inits, runs>>

scriptVars == <<script, sys_argv, sys_save, script_pc, calls, returns, argv_before>>

experimentVars == <<pipeline, cpus_arg, gpus_arg, cpus_per_trial, gpus_per_trial,
                    pc, i, error, cause, stage_to_id, actors, status, resolved>>

vars == <<experimentVars, rayVars, scriptVars>>

----------------------------------------------------------------------------
(* Bounds of the model *)

MaxStages == 3      \* stages in a pipeline
MaxRefs == 3        \* links between stages in a pipeline
MaxRuns == 2        \* calls of Experiment.run in one process
MaxArgs == 2        \* positional arguments of a Script
MaxKwargs == 1      \* keyword arguments of a Script
MaxSteps == 2       \* largest max_steps of a Script
MaxCalls == 3       \* calls of Script.run

AllNames == <<"A", "B", "C", "D", "E", "F">>
Unknown == "Z"      \* a name that is never a key of the pipeline
None == 0           \* Python's None, also "no object id"

NamesUpTo(k) == {AllNames[j] : j \in 1..k}

----------------------------------------------------------------------------
(* Python dicts: functions with a finite domain *)

EmptyDict == [k \in {} |-> None]

Get(d, k, default) == IF k \in DOMAIN d THEN d[k] ELSE default

Values(d) == {d[k] : k \in DOMAIN d}

----------------------------------------------------------------------------
(* Experiment.__init__ *)

InitCpusPerTrial(arg) == EmptyDict

InitGpusPerTrial(arg) == EmptyDict

----------------------------------------------------------------------------
(* Pipeline: the stages' names in declaration order and their links *)

Range(s) == {s[j] : j \in 1..Len(s)}

RECURSIVE Acyclic(_, _)
Acyclic(S, refs) ==
    IF S = {} THEN TRUE
    ELSE LET free == {n \in S : \A d \in S : <<n, d>> \notin refs}
         IN  free # {} /\ Acyclic(S \ free, refs)

PipelineSpecs ==
    UNION { LET names == NamesUpTo(k)
                order == [j \in 1..k |-> AllNames[j]]
                links == {e \in names \X (names \cup {Unknown}) : e[1] # e[2]}
            IN  {[order |-> order, refs |-> r] :
                    r \in {x \in SUBSET links :
                              Cardinality(x) <= MaxRefs /\ Acyclic(names, x)}}
          : k \in 0..MaxStages }

IndexOf(p, n) == CHOOSE j \in 1..Len(p.order) : p.order[j] = n

\* The names a stage links to.
References(p, n) == {d \in NamesUpTo(Len(AllNames)) \cup {Unknown} : <<n, d>> \in p.refs}

UnknownReferences(p) == {e \in p.refs : e[2] \notin Range(p.order)}

RECURSIVE SetToSeq(_, _)
SetToSeq(S, all) ==
    IF all = <<>> THEN <<>>
    ELSE (IF Head(all) \in S THEN <<Head(all)>> ELSE <<>>) \o SetToSeq(S, Tail(all))

\* sub_pipeline(name).dependencies: the stages the named stage links to.
dependencies(p, n) ==
    SetToSeq(References(p, n), p.order) \o
    (IF Unknown \in References(p, n) THEN <<Unknown>> ELSE <<>>)

----------------------------------------------------------------------------
(* Arguments of Experiment.__init__ *)

BudgetArgs ==
    { <<EmptyDict, EmptyDict>>,
      <<(AllNames[1] :> 4), (AllNames[1] :> 1)>>,
      <<(AllNames[1] :> -1), EmptyDict>> }

----------------------------------------------------------------------------
(* Script: Python values, str() and the arguments of Script.__init__ *)

PyInt(text) == [t |-> "int", v |-> text]

PyStr(text) == [t |-> "str", v |-> text]

\* str(item): a str with the text of the item.
str(item) == [t |-> "str", v |-> item.v]

PyValues == {PyInt("1"), PyStr("a")}

SeqsUpTo(S, n) == UNION {[1..k -> S] : k \in 0..n}

\* Script.__init__, lines 47-56.
NewScript(pos_args, keyword_args, max_steps) ==
    [args |-> pos_args, kwargs |-> keyword_args, max_steps |-> max_steps, step |-> 0]

\* The process before any call of Script.run.
ScriptIdle ==
    /\ script = NewScript(<<>>, <<>>, <<>>)
    /\ sys_argv = <<PyStr("flambe"), PyStr("run")>>
    /\ sys_save = <<>>
    /\ script_pc = "idle"
    /\ calls = 0
    /\ returns = <<>>
    /\ argv_before = sys_argv

\* The process when run is first called: ray may have been initialized by the
\* caller already.
Init ==
    /\ ScriptIdle
    /\ ray_initialized \in BOOLEAN
    /\ ray_inits = 0
    /\ runs = 1
    /\ pipeline \in PipelineSpecs
    /\ \E b \in BudgetArgs :
          /\ cpus_arg = b[1]
          /\ gpus_arg = b[2]
          /\ cpus_per_trial = InitCpusPerTrial(b[1])
          /\ gpus_per_trial = InitGpusPerTrial(b[2])
    /\ pc = "start"
    /\ i = 1
    /\ error = "none"
    /\ cause = None
    /\ stage_to_id = EmptyDict
    /\ actors = <<>>
    /\ status = <<>>
    /\ resolved = <<>>

----------------------------------------------------------------------------
(* Experiment.run *)

Raise(e) ==
    /\ pc' = "raised"
    /\ error' = e

\* Variant of SetUpRay: ray.init is called without asking is_initialized.
SetUpRayAlways ==
    /\ ray_initialized' = TRUE
    /\ ray_inits' = ray_inits + 1

\* Lines 71-74: ray.init unless ray is initialized already.
SetUpRay ==
    /\ ray_initialized' = TRUE
    /\ ray_inits' = IF ~ray_initialized THEN ray_inits + 1 ELSE ray_inits

\* Lines 69-77: the runtime, the local dict and the Pipeline object. run looks
\* at no link here; a link to an unknown name comes up in the loop, line 83.
BuildPipeline ==
    /\ pc = "start"
    /\ SetUpRay
    /\ pc' = IF Len(pipeline.order) = 0 THEN "join" ELSE "loop"
    /\ i' = 1
    /\ stage_to_id' = EmptyDict
    /\ UNCHANGED <<scriptVars, runs, pipeline, cpus_arg, gpus_arg, cpus_per_trial, gpus_per_trial,
                   error, cause, actors, status, resolved>>

\* Variant of depedency_ids: no object id is passed on.
depedency_ids_none(ids, deps) == <<>>

\* Variant of depedency_ids: every object id recorded so far is passed on.
depedency_ids_all(ids, deps) == SetToSeq(Values(ids), [j \in 1..Len(actors) |-> j])

\* Line 83: [stage_to_id[d] for d in sub_pipeline.dependencies]
depedency_ids(ids, deps) == [j \in 1..Len(deps) |-> ids[deps[j]]]

\* Line 83 raises KeyError when a dependency has no entry in stage_to_id.
LookupFails(ids, deps) == \E j \in 1..Len(deps) : deps[j] \notin DOMAIN ids

\* Lines 86-95: the remote Stage and its arguments.
NewStage(name, deps) ==
    [name |-> name,
     dependencies |-> depedency_ids(stage_to_id, deps),
     cpus_per_trial |-> Get(cpus_per_trial, name, 1),
     gpus_per_trial |-> Get(gpus_per_trial, name, 0)]

\* Variant of SubmitStage: stage_to_id.get(d) in place of stage_to_id[d].
SubmitStageGet(name) ==
    LET deps == dependencies(pipeline, name)
        object_id == Len(actors) + 1
    IN  /\ actors' = Append(actors,
                        [name |-> name,
                         dependencies |-> [j \in 1..Len(deps) |-> Get(stage_to_id, deps[j], None)],
                         cpus_per_trial |-> Get(cpus_per_trial, name, 1),
                         gpus_per_trial |-> Get(gpus_per_trial, name, 0)])
        /\ status' = Append(status, "pending")
        /\ resolved' = Append(resolved, 0)
        /\ stage_to_id' = (name :> object_id) @@ stage_to_id
        /\ i' = i + 1
        /\ pc' = IF i = Len(pipeline.order) THEN "join" ELSE "loop"
        /\ UNCHANGED error

\* Lines 82-100: one iteration of the loop, for the stage called name.
SubmitStage(name) ==
    LET deps == dependencies(pipeline, name)
        object_id == Len(actors) + 1
    IN  IF LookupFails(stage_to_id, deps)
        THEN /\ Raise("KeyError")
             /\ UNCHANGED <<i, stage_to_id, actors, status, resolved>>
        ELSE /\ actors' = Append(actors, NewStage(name, deps))
             /\ status' = Append(status, "pending")
             /\ resolved' = Append(resolved, 0)
             /\ stage_to_id' = (name :> object_id) @@ stage_to_id
             /\ i' = i + 1
             /\ pc' = IF i = Len(pipeline.order) THEN "join" ELSE "loop"
             /\ UNCHANGED error

\* Variant of LoopStep: the loop waits for the dependencies' values (ray.get)
\* before it submits the stage.
LoopStepGet ==
    /\ pc = "loop"
    /\ i <= Len(pipeline.order)
    /\ \A d \in References(pipeline, pipeline.order[i]) :
          d \in DOMAIN stage_to_id => status[stage_to_id[d]] = "done"
    /\ SubmitStage(pipeline.order[i])
    /\ UNCHANGED <<scriptVars, rayVars, pipeline, cpus_arg, gpus_arg, cpus_per_trial, gpus_per_trial, cause>>

\* Variant of LoopStep: the items are walked from the last to the first.
LoopStepReversed ==
    /\ pc = "loop"
    /\ i <= Len(pipeline.order)
    /\ SubmitStage(pipeline.order[Len(pipeline.order) + 1 - i])
    /\ UNCHANGED <<scriptVars, rayVars, pipeline, cpus_arg, gpus_arg, cpus_per_trial, gpus_per_trial, cause>>

\* Line 80: for name, schema in pipeline.arguments.items()
LoopStep ==
    /\ pc = "loop"
    /\ i <= Len(pipeline.order)
    /\ SubmitStage(pipeline.order[i])
    /\ UNCHANGED <<scriptVars, rayVars, pipeline, cpus_arg, gpus_arg, cpus_per_trial, gpus_per_trial, cause>>

\* Variant of JoinTargets: only the last object id is waited for.
JoinTargetsLast(ids) == {h \in Values(ids) : \A g \in Values(ids) : g <= h}

\* Line 104: the object ids the join waits for.
JoinTargets(ids) == Values(ids)

\* Variant of JoinReturn: the join returns with the first value (ray.wait).
JoinReturnAny ==
    /\ pc = "join"
    /\ \E h \in JoinTargets(stage_to_id) : status[h] = "done"
    /\ pc' = "returned"
    /\ UNCHANGED <<scriptVars, rayVars, pipeline, cpus_arg, gpus_arg, cpus_per_trial, gpus_per_trial,
                   i, error, cause, stage_to_id, actors, status, resolved>>

\* Variant of JoinReturn: the join only waits for the objects (ray.wait) and
\* does not look at their outcome.
JoinReturnResolved ==
    /\ pc = "join"
    /\ \A h \in JoinTargets(stage_to_id) : status[h] \in {"done", "failed"}
    /\ pc' = "returned"
    /\ UNCHANGED <<scriptVars, rayVars, pipeline, cpus_arg, gpus_arg, cpus_per_trial, gpus_per_trial,
                   i, error, cause, stage_to_id, actors, status, resolved>>

\* Line 104: ray.get returns once every object has its value.
JoinReturn ==
    /\ pc = "join"
    /\ \A h \in JoinTargets(stage_to_id) : status[h] = "done"
    /\ pc' = "returned"
    /\ UNCHANGED <<scriptVars, rayVars, pipeline, cpus_arg, gpus_arg, cpus_per_trial, gpus_per_trial,
                   i, error, cause, stage_to_id, actors, status, resolved>>

\* Variant of JoinRaise: the stages still pending or running are cancelled
\* when the failure is raised.
JoinRaiseCancel ==
    /\ pc = "join"
    /\ \E h \in JoinTargets(stage_to_id) :
          /\ status[h] = "failed"
          /\ cause' = h
    /\ Raise("StageExecutionError")
    /\ status' = [h \in DOMAIN status |->
                     IF status[h] \in {"pending", "running"} THEN "cancelled" ELSE status[h]]
    /\ UNCHANGED <<scriptVars, rayVars, pipeline, cpus_arg, gpus_arg, cpus_per_trial, gpus_per_trial,
                   i, stage_to_id, actors, resolved>>

\* Variant of JoinRaise: the failure is swallowed and the join is tried again.
JoinRaiseRetry ==
    /\ pc = "join"
    /\ \E h \in JoinTargets(stage_to_id) : status[h] = "failed"
    /\ UNCHANGED <<scriptVars, rayVars, pipeline, cpus_arg, gpus_arg, cpus_per_trial, gpus_per_trial,
                   pc, i, error, cause, stage_to_id, actors, status, resolved>>

\* Line 104: ray.get re-raises the failure of an object it was given: the
\* runtime's task error around the stage's exception, StageExecutionError in
\* the design's error taxonomy. It may do so while other objects are pending.
JoinRaise ==
    /\ pc = "join"
    /\ \E h \in JoinTargets(stage_to_id) :
          /\ status[h] = "failed"
          /\ cause' = h
    /\ Raise("StageExecutionError")
    /\ UNCHANGED <<scriptVars, rayVars, pipeline, cpus_arg, gpus_arg, cpus_per_trial, gpus_per_trial,
                   i, stage_to_id, actors, status, resolved>>

----------------------------------------------------------------------------
(* Remote workers *)

Resolved(h) == h \in DOMAIN status /\ status[h] \in {"done", "failed"}

\* A worker picks up a stage once every object id it was given has a value
\* (the ordering the design requires of the runtime and of Stage).
StageStart(h) ==
    /\ h \in DOMAIN status
    /\ status[h] = "pending"
    /\ \A j \in 1..Len(actors[h].dependencies) : Resolved(actors[h].dependencies[j])
    /\ status' = [status EXCEPT ![h] = "running"]
    /\ UNCHANGED <<scriptVars, rayVars, pipeline, cpus_arg, gpus_arg, cpus_per_trial, gpus_per_trial,
                   pc, i, error, cause, stage_to_id, actors, resolved>>

\* The stage's run() ends, with a value or with an exception.
StageFinish(h, outcome) ==
    /\ h \in DOMAIN status
    /\ status[h] = "running"
    /\ status' = [status EXCEPT ![h] = outcome]
    /\ resolved' = [resolved EXCEPT ![h] = @ + 1]
    /\ UNCHANGED <<scriptVars, rayVars, pipeline, cpus_arg, gpus_arg, cpus_per_trial, gpus_per_trial,
                   pc, i, error, cause, stage_to_id, actors>>

Next ==
    \/ BuildPipeline
    \/ LoopStep
    \/ JoinReturn
    \/ JoinRaise
    \/ \E h \in DOMAIN status : StageStart(h)
    \/ \E h \in DOMAIN status : StageFinish(h, "done")
    \/ \E h \in DOMAIN status : StageFinish(h, "failed")

Spec == Init /\ [][Next]_vars

\* The run goes on as long as it can; so do the workers.
FairSpec ==
    /\ Spec
    /\ WF_vars(BuildPipeline)
    /\ WF_vars(LoopStep)
    /\ WF_vars(JoinReturn)
    /\ WF_vars(JoinRaise)
    /\ \A h \in 1..MaxStages :
          /\ WF_vars(StageStart(h))
          /\ WF_vars(StageFinish(h, "done") \/ StageFinish(h, "failed"))

----------------------------------------------------------------------------
(* Several calls of Experiment.run in one process *)

\* Line 60: run is called again once the previous call has ended, whatever
\* the state of the stages it submitted: run keeps no handle of them. The
\* tables follow the stages of the current call only.
RunAgain ==
    /\ pc \in {"returned", "raised"}
    /\ runs < MaxRuns
    /\ runs' = runs + 1
    /\ pc' = "start"
    /\ i' = 1
    /\ error' = "none"
    /\ cause' = None
    /\ stage_to_id' = EmptyDict
    /\ actors' = <<>>
    /\ status' = <<>>
    /\ resolved' = <<>>
    /\ UNCHANGED <<scriptVars, ray_initialized, ray_inits, pipeline, cpus_arg, gpus_arg,
                   cpus_per_trial, gpus_per_trial>>

RayNext ==
    \/ RunAgain
    \/ BuildPipeline
    \/ LoopStep
    \/ JoinReturn
    \/ JoinRaise
    \/ \E h \in DOMAIN status : StageStart(h)
    \/ \E h \in DOMAIN status : StageFinish(h, "done")
    \/ \E h \in DOMAIN status : StageFinish(h, "failed")

RaySpec == Init /\ [][RayNext]_vars

----------------------------------------------------------------------------
(* Script.run *)

\* Line 83: the keys and values of kwargs, in the order of items().
RECURSIVE FlattenItems(_)
FlattenItems(items) ==
    IF items = <<>> THEN <<>>
    ELSE <<str(Head(items)[1]), str(Head(items)[2])>> \o FlattenItems(Tail(items))

\* Lines 82-83: parser_args_flat
parser_args_flat(self) ==
    [j \in 1..Len(self.args) |-> str(self.args[j])] \o FlattenItems(self.kwargs)

\* Variant of continue_: > in place of >=.
continue_gt(max_steps, step) ==
    IF max_steps = <<>> \/ step > max_steps[1] THEN FALSE ELSE TRUE

\* Lines 92-94: whether to continue; max_steps is <<>> for None, <<k>> for k.
continue_(max_steps, step) ==
    IF max_steps = <<>> \/ step >= max_steps[1] THEN FALSE ELSE TRUE

\* Lines 76-87: run up to the exec of the script.
ScriptRunBegin ==
    /\ script_pc \in {"idle", "raised"}
    /\ calls < MaxCalls
    /\ calls' = calls + 1
    /\ argv_before' = sys_argv
    /\ sys_save' = sys_argv
    /\ sys_argv' = <<PyStr("")>> \o parser_args_flat(script)
    /\ script_pc' = "exec"
    /\ UNCHANGED <<experimentVars, rayVars, script, returns>>

\* Lines 88-95: the script ends; sys.argv is put back and the step counted.
ScriptRunReturn ==
    /\ script_pc = "exec"
    /\ sys_argv' = sys_save
    /\ script' = [script EXCEPT !.step = @ + 1]
    /\ returns' = Append(returns, continue_(script.max_steps, script.step + 1))
    /\ script_pc' = "idle"
    /\ UNCHANGED <<experimentVars, rayVars, sys_save, calls, argv_before>>

\* What a script may make of sys.argv while it runs.
ChangedArgv == <<PyStr("changed"), PyStr("by"), PyStr("script")>>

\* Line 88: the running script assigns sys.argv.
ScriptAssignsArgv ==
    /\ script_pc = "exec"
    /\ sys_argv # ChangedArgv
    /\ sys_argv' = ChangedArgv
    /\ UNCHANGED <<experimentVars, rayVars, script, sys_save, script_pc, calls,
                   returns, argv_before>>

\* Line 88: the script raises; the exception leaves run at once, with
\* sys.argv as the script left it.
ScriptRunRaise ==
    /\ script_pc = "exec"
    /\ script_pc' = "raised"
    /\ UNCHANGED <<experimentVars, rayVars, script, sys_argv, sys_save, calls,
                   returns, argv_before>>

\* No Experiment is run in the process.
ExperimentIdle ==
    /\ pipeline = [order |-> <<>>, refs |-> {}]
    /\ cpus_arg = EmptyDict
    /\ gpus_arg = EmptyDict
    /\ cpus_per_trial = EmptyDict
    /\ gpus_per_trial = EmptyDict
    /\ pc = "start"
    /\ i = 1
    /\ error = "none"
    /\ cause = None
    /\ stage_to_id = EmptyDict
    /\ actors = <<>>
    /\ status = <<>>
    /\ resolved = <<>>
    /\ ray_initialized = FALSE
    /\ ray_inits = 0
    /\ runs = 0

ScriptInit ==
    /\ ExperimentIdle
    /\ \E a \in SeqsUpTo(PyValues, MaxArgs) :
       \E k \in SeqsUpTo({PyStr("--lr")} \X PyValues, MaxKwargs) :
       \E m \in {<<>>} \cup {<<n>> : n \in 0..MaxSteps} :
          script = NewScript(a, k, m)
    /\ sys_argv = <<PyStr("flambe"), PyStr("run")>>
    /\ sys_save = <<>>
    /\ script_pc = "idle"
    /\ calls = 0
    /\ returns = <<>>
    /\ argv_before = sys_argv

ScriptNext ==
    \/ ScriptRunBegin
    \/ ScriptAssignsArgv
    \/ ScriptRunReturn
    \/ ScriptRunRaise

ScriptSpec == ScriptInit /\ [][ScriptNext]_vars

----------------------------------------------------------------------------
(* Properties *)

Stages == Range(pipeline.order)

Ended == pc \in {"returned", "raised"}

AllSubmitted == DOMAIN stage_to_id = Stages

FailedIds == {h \in DOMAIN status : status[h] = "failed"}

Unfinished == {h \in DOMAIN status : status[h] \in {"pending", "running"}}

\* Some stage comes before a stage it links to.
NonTopological(p) ==
    \E e \in p.refs : e[2] \in Range(p.order) /\ IndexOf(p, e[1]) < IndexOf(p, e[2])

\* C1: every submitted stage is given the budget configured for it at
\* construction, (1, 0) when nothing was configured for it.
C1_BudgetAsConfigured ==
    \A h \in DOMAIN actors :
        /\ actors[h].cpus_per_trial = Get(cpus_arg, actors[h].name, 1)
        /\ actors[h].gpus_per_trial = Get(gpus_arg, actors[h].name, 0)

\* C2: a run over a pipeline whose order is not topological ends in
\* UnresolvedDependencyError and in no other way.
C2_UnresolvedDependencyError ==
    (NonTopological(pipeline) /\ UnknownReferences(pipeline) = {} /\ Ended)
        => (pc = "raised" /\ error = "UnresolvedDependencyError")

\* C3: every submitted stage was submitted after each stage it depends on,
\* whose object id was in stage_to_id by then.
C3_DependenciesSubmittedFirst ==
    \A h \in DOMAIN actors :
        \A d \in References(pipeline, actors[h].name) :
            /\ d \in DOMAIN stage_to_id
            /\ stage_to_id[d] < h
            /\ actors[stage_to_id[d]].name = d

C3_Witness ==
    \E h \in DOMAIN actors :
        /\ Cardinality(References(pipeline, actors[h].name)) = 2
        /\ pc = "join"

\* C4: a stage that has begun executing has all its dependencies resolved.
C4_StartsAfterDependencies ==
    \A h \in DOMAIN actors :
        status[h] # "pending" =>
            \A d \in References(pipeline, actors[h].name) :
                d \in DOMAIN stage_to_id /\ Resolved(stage_to_id[d])

C4_Witness ==
    \E h \in DOMAIN actors :
        /\ status[h] = "running"
        /\ References(pipeline, actors[h].name) # {}
        /\ \E g \in DOMAIN actors : g > h /\ status[g] = "pending"

\* C5: the object ids passed to a stage are exactly the ids recorded for the
\* stages it depends on, one each; none when it depends on nothing.
C5_ExactDependencyIds ==
    \A h \in DOMAIN actors :
        LET refs == References(pipeline, actors[h].name)
            ids == actors[h].dependencies
        IN  /\ Len(ids) = Cardinality(refs)
            /\ Range(ids) = {stage_to_id[d] : d \in refs \cap DOMAIN stage_to_id}
            /\ \A d \in refs : d \in DOMAIN stage_to_id /\ actors[stage_to_id[d]].name = d

\* {A, B depends on A, C}: all submitted, B with [id(A)], A and C with [].
C5_Witness ==
    /\ pipeline.order = <<"A", "B", "C">>
    /\ pipeline.refs = {<<"B", "A">>}
    /\ pc = "join"
    /\ actors[stage_to_id["B"]].dependencies = <<stage_to_id["A"]>>
    /\ actors[stage_to_id["A"]].dependencies = <<>>
    /\ actors[stage_to_id["C"]].dependencies = <<>>

\* C6: the loop's step never waits, whatever the state of the stages already
\* submitted, and the join is reached only with every stage submitted.
C6_OnlyJoinBlocks ==
    /\ pc = "loop" => ENABLED LoopStep
    /\ (pc \in {"join", "returned"} \/ error = "StageExecutionError") => AllSubmitted

C6_Witness ==
    /\ pc = "loop"
    /\ i = Len(pipeline.order)
    /\ References(pipeline, pipeline.order[i]) # {}
    /\ \A h \in DOMAIN status : status[h] = "pending"

\* C7: a run that got to the join and in which exactly one stage has failed
\* ends with StageExecutionError for that stage and does not return.
C7_OneFailureRaises ==
    (Ended /\ AllSubmitted /\ Cardinality(FailedIds) = 1)
        => (pc = "raised" /\ error = "StageExecutionError" /\ cause \in FailedIds)

C7_Witness ==
    /\ pc = "raised"
    /\ error = "StageExecutionError"
    /\ FailedIds = {cause}
    /\ \E h \in Unfinished : h > cause

AllSucceeded == AllSubmitted /\ \A h \in DOMAIN status : status[h] = "done"

\* C8: when every stage has succeeded the run returns, without error, and
\* when it returns every stage's object has got its value once and no stage
\* is pending.
C8_SuccessReturns ==
    /\ [](AllSucceeded => error = "none")
    /\ [](pc = "returned" =>
            /\ Len(actors) = Len(pipeline.order)
            /\ \A h \in DOMAIN status : status[h] = "done" /\ resolved[h] = 1)
    /\ (AllSucceeded ~> pc = "returned")

C8_Witness ==
    /\ pc = "returned"
    /\ Len(pipeline.order) = MaxStages
    /\ pipeline.refs # {}

\* C9: the run has returned only if every stage of the pipeline was
\* submitted and has completed successfully.
C9_ReturnedOnlyOnSuccess ==
    pc = "returned" =>
        \A n \in Stages : n \in DOMAIN stage_to_id /\ status[stage_to_id[n]] = "done"

C9_Witness ==
    /\ pc = "returned"
    /\ Len(pipeline.order) > 1
    /\ pipeline.refs = {}

RECURSIVE TransitiveDependencies(_, _)
TransitiveDependencies(p, n) ==
    LET direct == References(p, n) \cap Range(p.order)
    IN  direct \cup UNION {TransitiveDependencies(p, d) : d \in direct}

Independent(p, a, b) ==
    /\ a # b
    /\ a \notin TransitiveDependencies(p, b)
    /\ b \notin TransitiveDependencies(p, a)

\* C11: of two submitted stages neither of which depends on the other, one
\* can start as soon as its own dependencies have resolved, and can complete,
\* while the other has not started or is still running.
C11_IndependentNotSerialized ==
    \A h \in DOMAIN actors : \A g \in DOMAIN actors :
        (Independent(pipeline, actors[h].name, actors[g].name) /\ g \in Unfinished) =>
            /\ (/\ status[h] = "pending"
                /\ \A d \in References(pipeline, actors[h].name) :
                      d \in DOMAIN stage_to_id /\ Resolved(stage_to_id[d]))
                   => ENABLED StageStart(h)
            /\ status[h] = "running" => ENABLED StageFinish(h, "done")

\* Two independent stages execute at the same time, the later one first.
C11_Witness ==
    \E h \in DOMAIN actors : \E g \in DOMAIN actors :
        /\ h < g
        /\ Independent(pipeline, actors[h].name, actors[g].name)
        /\ status[h] = "running"
        /\ status[g] = "running"
        /\ References(pipeline, actors[g].name) # {}

\* C12: with a negative CPU or GPU count configured for a stage, the stage
\* is never submitted and the run ends in InvalidBudgetError.
C12_InvalidBudgetError ==
    \A n \in Stages :
        (Get(cpus_arg, n, 1) < 0 \/ Get(gpus_arg, n, 0) < 0) =>
            /\ n \notin DOMAIN stage_to_id
            /\ Ended => error = "InvalidBudgetError"

\* C13: a submitted stage stays submitted, its status only moves from
\* pending to running to done or failed, and it ends in done or failed,
\* whatever becomes of the run.
C13_NeverCancelled ==
    /\ [][\A h \in DOMAIN status :
            /\ h \in DOMAIN status'
            /\ \/ status'[h] = status[h]
               \/ status[h] = "pending" /\ status'[h] = "running"
               \/ status[h] = "running" /\ status'[h] \in {"done", "failed"}]_vars
    /\ \A h \in 1..MaxStages : (h \in DOMAIN status) ~> Resolved(h)

\* The run has raised for a failed stage and a stage submitted after it has
\* completed all the same.
C13_Witness ==
    /\ pc = "raised"
    /\ error = "StageExecutionError"
    /\ \E h \in DOMAIN status : h > cause /\ status[h] = "done" /\ cause \in Range(actors[h].dependencies)

\* C14: the stages are submitted in the pipeline's order, each once, and an
\* entry of stage_to_id is never changed or removed; a step adds at most one.
C14_DeclaredOrder ==
    /\ [](\A h \in DOMAIN actors :
            /\ actors[h].name = pipeline.order[h]
            /\ actors[h].name \in DOMAIN stage_to_id
            /\ stage_to_id[actors[h].name] = h)
    /\ [](DOMAIN stage_to_id = {pipeline.order[j] : j \in 1..Len(actors)})
    /\ [][/\ \A n \in DOMAIN stage_to_id :
                n \in DOMAIN stage_to_id' /\ stage_to_id'[n] = stage_to_id[n]
          /\ Cardinality(DOMAIN stage_to_id') <= Cardinality(DOMAIN stage_to_id) + 1]_vars

C14_Witness ==
    /\ Len(actors) = MaxStages
    /\ pipeline.refs = {}
    /\ pc = "join"
    /\ \E h \in DOMAIN status : status[h] = "failed"

\* C17: a run that waits at the join ends, by returning or by raising.
C17_JoinTerminates == (pc = "join") ~> Ended

C17_Witness ==
    /\ pc = "join"
    /\ Len(actors) = MaxStages
    /\ \A h \in DOMAIN status : status[h] = "pending"
    /\ \E h \in DOMAIN actors : Len(actors[h].dependencies) = 2

\* C15: the step counter counts the completed calls of Script.run, and the
\* j-th completed call returned True exactly when max_steps is set and j is
\* below it.
C15_StepAndContinue ==
    /\ script.step = Len(returns)
    /\ \A j \in 1..Len(returns) :
          returns[j] = (script.max_steps # <<>> /\ j < script.max_steps[1])

\* max_steps = 2: the first call returned True, the second False.
C15_Witness ==
    /\ script.max_steps = <<MaxSteps>>
    /\ Len(returns) = MaxSteps
    /\ returns[MaxSteps - 1] = TRUE
    /\ returns[MaxSteps] = FALSE

\* C16: outside a call of Script.run, sys.argv is what it was before the
\* call, also after a call that raised; during the script's execution it is
\* the dummy, the stringified positional arguments, then each key and value
\* (as long as the script itself has not assigned it).
C16_ArgvRestored ==
    /\ script_pc \in {"idle", "raised"} => sys_argv = argv_before
    /\ (script_pc = "exec" /\ sys_argv # ChangedArgv) =>
          sys_argv = <<PyStr("")>>
                     \o [j \in 1..Len(script.args) |-> PyStr(script.args[j].v)]
                     \o FlattenItems(script.kwargs)

\* C18: run calls ray.init only when ray is not initialized, at most once in
\* the process, and ray is initialized before a run submits its first stage.
C18_RayInitializedOnce ==
    /\ [](ray_inits <= 1)
    /\ [](pc \in {"loop", "join", "returned"} => ray_initialized)
    /\ [][/\ ray_initialized => ray_initialized' /\ ray_inits' = ray_inits
          /\ Len(actors') > Len(actors) => ray_initialized]_vars

\* A second run submits its stages; ray was initialized by the first run.
C18_Witness ==
    /\ runs = MaxRuns
    /\ ray_inits = 1
    /\ pc = "join"
    /\ Len(actors) = MaxStages

====
